---- MODULE Spec2Model ----
(***************************************************************************)
(* Product catalog: the Product aggregate (status, details, discount,      *)
(* archival, change tracking, pending domain events), the Discount         *)
(* validity window, and the use-case orchestrators that load a product,    *)
(* call one domain method and commit the product mutation together with    *)
(* the outbox inserts in one atomic apply.                                 *)
(*                                                                         *)
(* The specifications that share the module:                               *)
(*   Spec          one in-memory Product driven by domain method calls     *)
(*   SpecUC        the stored product row, the outbox table and two        *)
(*                 concurrent use-case executions (load, domain call,      *)
(*                 plan, apply)                                            *)
(*   SpecRace      status and discount executions racing on a product that *)
(*                 is already stored and active                            *)
(*   SpecValidity  single evaluations of Discount.IsValidAt                *)
(*   SpecPricing   single evaluations of CalculateEffectivePrice           *)
(*   SpecAttach    single evaluations of CalculateEffectivePrice on a       *)
(*                 stored product or after one apply-discount request      *)
(*   SpecConstruct single calls of NewProduct                              *)
(*   SpecValidate  single calls of Discount.Validate                       *)
(*   SpecMoney     single evaluations of Add, Subtract and Multiply        *)
(*   SpecConvert   single conversions of Money to minor units              *)
(*   SpecTracker   a ChangeTracker on its own: zero value, MarkDirty, and  *)
(*                 the tracker of a reconstructed product                  *)
(*   SpecMethod    single calls of the Product methods on a product as     *)
(*                 NewProduct or ReconstructProduct returns it             *)
(* Event time stamps (ActivatedAt, AppliedAt, ...) are not carried in the  *)
(* modelled events: no modelled operation reads them.                      *)
(***************************************************************************)
EXTENDS Integers, Sequences, FiniteSets, TLC

VARIABLES
    product,       \* the in-memory aggregate (Spec)
    clock,         \* the wall clock: time.Now() and clock.Now()
    ret,           \* the last domain call: [op, err, dValid]
    stage,         \* progress through: Deactivate refused, RemoveDiscount, Deactivate
    run,           \* the current run of consecutive Activate (or Deactivate) calls
    applied,       \* the discount of the most recent successful ApplyDiscount
    removedSince,  \* a RemoveDiscount returned nil since that ApplyDiscount
    row,           \* the stored product row (SpecUC)
    outbox,        \* the stored outbox records, in insertion order
    execs,         \* the use-case executions in flight
    committed,     \* the events of the state changes the applies have stored
    result,        \* what the last use-case execution returned: [err, bad]
    reply,         \* the gRPC status the handler returned for that execution
    probe,         \* one evaluation of Discount.IsValidAt (SpecValidity)
    quote,         \* one evaluation of CalculateEffectivePrice (SpecPricing)
    built,         \* one call of NewProduct (SpecConstruct)
    validated,     \* one call of Discount.Validate (SpecValidate)
    called,        \* one call of a Product method (SpecMethod)
    sums,          \* one evaluation of the Money operations (SpecMoney)
    converted,     \* one conversion of Money to minor units (SpecConvert)
    tracker        \* a ChangeTracker and the last operation on it (SpecTracker)

aggregateVars == <<product, ret, stage, run, applied, removedSince>>
storageVars == <<row, outbox, execs, committed, result, reply>>
vars == <<product, clock, ret, stage, run, applied, removedSince,
          row, outbox, execs, committed, result, reply, probe, quote, built,
          validated, called, sums, converted, tracker>>
probeVars == <<probe, quote, built, validated, called, sums, converted, tracker>>

\* ------------------------------------------------------------------ bounds
MaxTime == 2
MaxEvents == 4
MaxRun == 2
MaxOutbox == 3
MaxProbe == 4
MaxNumerator == 25

Times == 0..MaxTime

\* --------------------------------------------------------------- constants
ProductStatusActive == "active"
ProductStatusInactive == "inactive"
StatusUnset == ""

FieldDiscount == "discount"
FieldName == "name"
FieldDescription == "description"
FieldCategory == "category"
FieldStatus == "status"
FieldArchivedAt == "archived_at"

NoError == "nil"
ErrProductNotActive == "product_not_active"
ErrInvalidDiscountPeriod == "invalid_discount_period"
ErrProductNotFound == "product_not_found"
ErrProductAlreadyArchived == "product_already_archived"
ErrDiscountAlreadyActive == "discount_already_active"
ErrInvalidPrice == "invalid_price"
ErrProductHasActiveDiscount == "product_has_active_discount"
ErrInvalidDiscountID == "invalid_discount_id"
ErrInvalidDiscountAmount == "invalid_discount_amount"
ErrInvalidDiscountDateRange == "invalid_discount_date_range"
\* errors the interactors and the storage client make themselves
ErrBasePriceRequired == "base_price is required"
ErrMarshal == "failed to marshal event data"
ErrLoad == "failed to load product"
ErrApply == "apply failed"

\* ------------------------------------------------------------------- Money
\* Money is *big.Rat: a fraction in lowest terms with a positive denominator
RECURSIVE GCD(_, _)
GCD(a, b) == IF b = 0 THEN a ELSE GCD(b, a % b)
Abs(x) == IF x < 0 THEN -x ELSE x
Rat(n, d) ==
    LET g == GCD(Abs(n), Abs(d))
        sgn == IF d < 0 THEN -1 ELSE 1
    IN [num |-> (sgn * n) \div g, den |-> (sgn * d) \div g]
NilMoney == [num |-> 0, den |-> 0]
NewMoney(amount) == Rat(amount, 100)
NewMoneyFromFraction(numerator, denominator) == Rat(numerator, denominator)
\* a sign that takes zero for positive
SignOfNonNegative(m) == IF m.num >= 0 THEN 1 ELSE -1
Sign(m) == IF m.num > 0 THEN 1 ELSE IF m.num < 0 THEN -1 ELSE 0
\* an addition that adds the numerators and keeps the first denominator
AddNumerators(m, other) == Rat(m.num + other.num, m.den)

Add(m, other) == Rat(m.num * other.den + other.num * m.den, m.den * other.den)
Subtract(m, other) == Rat(m.num * other.den - other.num * m.den, m.den * other.den)
Multiply(m, other) == Rat(m.num * other.num, m.den * other.den)

\* int64(f): the fraction n / d (d > 0) cut towards zero
Int64OfFloat(n, d) == IF n >= 0 THEN n \div d ELSE -((-n) \div d)

\* BigRatToInt64: cents when they are whole, else int64(Float64(cents) + 0.5).
\* (On the values modelled the float64 nearest to cents lies on the same side
\* of every integer and half-integer as cents itself.)
BigRatToInt64(rat) ==
    IF rat = NilMoney THEN 0
    ELSE LET cents == Multiply(rat, NewMoneyFromFraction(100, 1))
         IN IF cents.den = 1 THEN cents.num
            ELSE Int64OfFloat(2 * cents.num + cents.den, 2 * cents.den)

\* the nil *pb.Money
NilProtoMoney == [nil |-> TRUE, Amount |-> 0]

\* DomainMoneyToProto: the same conversion into a pb.Money
DomainMoneyToProto(domainMoney) ==
    IF domainMoney = NilMoney THEN NilProtoMoney
    ELSE LET cents == Multiply(domainMoney, NewMoneyFromFraction(100, 1))
         IN [nil |-> FALSE,
             Amount |-> IF cents.den = 1 THEN cents.num
                        ELSE Int64OfFloat(2 * cents.num + cents.den, 2 * cents.den)]

\* the nil *Discount and the nil *time.Time
NilDiscount == [ID |-> "nil", Amount |-> NilMoney, StartDate |-> 0, EndDate |-> 0]
NilTime == -1

DiscountIDs == {"d1", "d2"}
\* The discounts callers pass: every window with StartDate <= EndDate (a
\* window whose end precedes its start behaves as the empty window
\* StartDate = EndDate does: IsValidAt is false at every instant), the two
\* ids spread over the windows.
Discounts == {d \in [ID : DiscountIDs, Amount : {NewMoneyFromFraction(10, 100)},
                      StartDate : Times, EndDate : Times] :
                /\ d.StartDate <= d.EndDate
                /\ d.ID = (IF (d.StartDate + d.EndDate) % 2 = 0 THEN "d1" ELSE "d2")}

\* UpdateDetails treats name, description and category alike; the name is the
\* field the requests vary.
Names == {"n1", "n2"}
Descriptions == {"x1"}
Categories == {"c1"}

ProductID == "p1"

\* ---------------------------------------------------------------- Discount
\* time.Time.Before / After on instants
Before(a, b) == a < b
After(a, b) == a > b

\* Discount.IsValidAt as the product package documents it: inclusive start,
\* exclusive end.
IsValidAt(d, now) == ~Before(now, d.StartDate) /\ Before(now, d.EndDate)

\* strings.TrimSpace on the ids the model passes: leading and trailing white
\* space is cut off
TrimSpace(s) ==
    CASE s \in {"", " ", "  "} -> ""
      [] s \in {" d1", "d1 ", " d1 "} -> "d1"
      [] OTHER -> s

\* a validation that takes the amount from the open interval (0, 1)
ValidateOpenInterval(d) ==
    IF TrimSpace(d.ID) = "" THEN ErrInvalidDiscountID
    ELSE IF d.Amount = NilMoney THEN ErrInvalidDiscountAmount
    ELSE IF d.Amount.num <= 0 \/ d.Amount.num >= d.Amount.den THEN ErrInvalidDiscountAmount
    ELSE IF ~Before(d.StartDate, d.EndDate) THEN ErrInvalidDiscountDateRange
    ELSE NoError

\* a validation that takes any amount
ValidateAnyAmount(d) ==
    IF TrimSpace(d.ID) = "" THEN ErrInvalidDiscountID
    ELSE IF d.Amount = NilMoney THEN ErrInvalidDiscountAmount
    ELSE IF ~Before(d.StartDate, d.EndDate) THEN ErrInvalidDiscountDateRange
    ELSE NoError

\* Discount.Validate: the structure of a discount, whatever the instant
Validate(d) ==
    IF TrimSpace(d.ID) = "" THEN ErrInvalidDiscountID
    ELSE IF d.Amount = NilMoney THEN ErrInvalidDiscountAmount
    ELSE IF d.Amount.num < 0 \/ d.Amount.num > d.Amount.den THEN ErrInvalidDiscountAmount
    ELSE IF ~Before(d.StartDate, d.EndDate) THEN ErrInvalidDiscountDateRange
    ELSE NoError

\* Discount.IsValidAt as the file discount.go has it: the start instant itself
\* is not valid.
DiscountGoIsValidAt(d, now) == After(now, d.StartDate) /\ Before(now, d.EndDate)

\* ------------------------------------------------------------ domain events
DiscountAppliedEvent(id, discountID) ==
    [name |-> "discount_applied", product_id |-> id, discount_id |-> discountID]
ProductActivatedEvent(id) ==
    [name |-> "product_activated", product_id |-> id, discount_id |-> ""]
ProductDeactivatedEvent(id) ==
    [name |-> "product_deactivated", product_id |-> id, discount_id |-> ""]
ProductArchivedEvent(id) ==
    [name |-> "product_archived", product_id |-> id, discount_id |-> ""]
DiscountRemovedEvent(id) ==
    [name |-> "discount_removed", product_id |-> id, discount_id |-> ""]
ProductCreatedEvent(id) ==
    [name |-> "product_created", product_id |-> id, discount_id |-> ""]
ProductUpdatedEvent(id) ==
    [name |-> "product_updated", product_id |-> id, discount_id |-> ""]

\* ------------------------------------------------------------ ChangeTracker
\* The struct itself: dirtyFields is a map[string]bool or nil. ZeroTracker is
\* ChangeTracker{}, EmptyTracker is ChangeTracker{dirtyFields: make(...)}.
ZeroTracker == [nil |-> TRUE, dirtyFields |-> [f \in {} |-> TRUE]]
EmptyTracker == [nil |-> FALSE, dirtyFields |-> [f \in {} |-> TRUE]]

\* a MarkDirty that writes only into a map that exists
ChangeTrackerMarkDirtyNeedsMap(ct, field) ==
    IF ct.nil THEN ct
    ELSE [nil |-> FALSE,
          dirtyFields |-> [f \in DOMAIN ct.dirtyFields \cup {field} |->
                              IF f = field THEN TRUE ELSE ct.dirtyFields[f]]]

ChangeTrackerMarkDirty(ct, field) ==
    [nil |-> FALSE,
     dirtyFields |-> [f \in DOMAIN ct.dirtyFields \cup {field} |->
                         IF f = field THEN TRUE ELSE ct.dirtyFields[f]]]

ChangeTrackerDirty(ct, field) ==
    IF ct.nil THEN FALSE
    ELSE IF field \in DOMAIN ct.dirtyFields THEN ct.dirtyFields[field]
    ELSE FALSE

\* In a Product the map is always allocated (NewProduct, ReconstructProduct)
\* and only ever holds true: the tracker is kept as the set of its keys.
MarkDirty(changes, field) == changes \cup {field}
Dirty(changes, field) == field \in changes

\* ----------------------------------------------------------------- Product
NewProductStartsInactive(id, name, description, category, basePrice) ==
    [id |-> id, name |-> name, description |-> description, category |-> category,
     basePrice |-> basePrice, discount |-> NilDiscount, status |-> ProductStatusInactive,
     changes |-> {}, events |-> <<>>, archivedAt |-> NilTime]

NewProduct(id, name, description, category, basePrice) ==
    [id |-> id, name |-> name, description |-> description, category |-> category,
     basePrice |-> basePrice, discount |-> NilDiscount, status |-> StatusUnset, changes |-> {},
     events |-> <<>>, archivedAt |-> NilTime]

ReconstructProduct(id, name, description, category, basePrice, discount, status, archivedAt) ==
    [id |-> id, name |-> name, description |-> description, category |-> category,
     basePrice |-> basePrice, discount |-> discount, status |-> status, changes |-> {},
     events |-> <<>>, archivedAt |-> archivedAt]

\* Each domain method is an operator from the product (and the arguments) to
\* the pair [p |-> product after the call, err |-> returned error].
ApplyDiscountNoActiveCheck(p, discount, now) ==
    IF p.status # ProductStatusActive THEN [p |-> p, err |-> ErrProductNotActive]
    ELSE IF ~IsValidAt(discount, now) THEN [p |-> p, err |-> ErrInvalidDiscountPeriod]
    ELSE [p |-> [p EXCEPT !.discount = discount,
                          !.changes = MarkDirty(p.changes, FieldDiscount),
                          !.events = Append(p.events, DiscountAppliedEvent(p.id, discount.ID))],
          err |-> NoError]

ApplyDiscountNoStatusCheck(p, discount, now) ==
    IF ~IsValidAt(discount, now) THEN [p |-> p, err |-> ErrInvalidDiscountPeriod]
    ELSE IF p.discount # NilDiscount /\ IsValidAt(p.discount, now)
         THEN [p |-> p, err |-> ErrDiscountAlreadyActive]
    ELSE [p |-> [p EXCEPT !.discount = discount,
                          !.changes = MarkDirty(p.changes, FieldDiscount),
                          !.events = Append(p.events, DiscountAppliedEvent(p.id, discount.ID))],
          err |-> NoError]

\* an ApplyDiscount that takes any discount that has not ended yet
ApplyDiscountAcceptsFuture(p, discount, now) ==
    IF p.status # ProductStatusActive THEN [p |-> p, err |-> ErrProductNotActive]
    ELSE IF ~Before(now, discount.EndDate) THEN [p |-> p, err |-> ErrInvalidDiscountPeriod]
    ELSE IF p.discount # NilDiscount /\ IsValidAt(p.discount, now)
         THEN [p |-> p, err |-> ErrDiscountAlreadyActive]
    ELSE [p |-> [p EXCEPT !.discount = discount,
                          !.changes = MarkDirty(p.changes, FieldDiscount),
                          !.events = Append(p.events, DiscountAppliedEvent(p.id, discount.ID))],
          err |-> NoError]

\* an ApplyDiscount that refuses whenever a discount is attached, valid or not
ApplyDiscountRejectsAttached(p, discount, now) ==
    IF p.status # ProductStatusActive THEN [p |-> p, err |-> ErrProductNotActive]
    ELSE IF ~IsValidAt(discount, now) THEN [p |-> p, err |-> ErrInvalidDiscountPeriod]
    ELSE IF p.discount # NilDiscount THEN [p |-> p, err |-> ErrDiscountAlreadyActive]
    ELSE [p |-> [p EXCEPT !.discount = discount,
                          !.changes = MarkDirty(p.changes, FieldDiscount),
                          !.events = Append(p.events, DiscountAppliedEvent(p.id, discount.ID))],
          err |-> NoError]

ApplyDiscount(p, discount, now) ==
    IF p.status # ProductStatusActive THEN [p |-> p, err |-> ErrProductNotActive]
    ELSE IF ~IsValidAt(discount, now) THEN [p |-> p, err |-> ErrInvalidDiscountPeriod]
    ELSE IF p.discount # NilDiscount /\ IsValidAt(p.discount, now)
         THEN [p |-> p, err |-> ErrDiscountAlreadyActive]
    ELSE [p |-> [p EXCEPT !.discount = discount,
                          !.changes = MarkDirty(p.changes, FieldDiscount),
                          !.events = Append(p.events, DiscountAppliedEvent(p.id, discount.ID))],
          err |-> NoError]

\* an update that marks the three detail fields dirty whatever changed
UpdateDetailsMarksAll(p, name, description, category) ==
    IF p.archivedAt # NilTime THEN [p |-> p, err |-> ErrProductAlreadyArchived]
    ELSE [p |-> [p EXCEPT
                   !.name = name,
                   !.description = description,
                   !.category = category,
                   !.changes = p.changes \cup {FieldName, FieldDescription, FieldCategory}],
          err |-> NoError]

UpdateDetails(p, name, description, category) ==
    IF p.archivedAt # NilTime THEN [p |-> p, err |-> ErrProductAlreadyArchived]
    ELSE [p |-> [p EXCEPT
                   !.name = name,
                   !.description = description,
                   !.category = category,
                   !.changes = (p.changes
                       \cup (IF name # p.name THEN {FieldName} ELSE {})
                       \cup (IF description # p.description THEN {FieldDescription} ELSE {})
                       \cup (IF category # p.category THEN {FieldCategory} ELSE {}))],
          err |-> NoError]

\* NewProduct as create_product calls it (with the instant): the status starts
\* Inactive and ProductCreated is pending.
NewProductAt(id, name, description, category, basePrice, now) ==
    [NewProduct(id, name, description, category, basePrice) EXCEPT
        !.status = ProductStatusInactive,
        !.events = <<ProductCreatedEvent(id)>>]

\* UpdateDetails as update_product calls it (with the instant): ProductUpdated
\* is pending when a field changed.
UpdateDetailsAt(p, name, description, category, now) ==
    LET r == UpdateDetails(p, name, description, category)
    IN IF r.err = NoError /\ r.p.changes # p.changes
       THEN [r EXCEPT !.p.events = Append(p.events, ProductUpdatedEvent(p.id))]
       ELSE r

ActivateAlwaysEmits(p) ==
    IF p.archivedAt # NilTime THEN [p |-> p, err |-> ErrProductAlreadyArchived]
    ELSE [p |-> [p EXCEPT !.status = ProductStatusActive,
                          !.changes = MarkDirty(p.changes, FieldStatus),
                          !.events = Append(p.events, ProductActivatedEvent(p.id))],
          err |-> NoError]

Activate(p) ==
    IF p.archivedAt # NilTime THEN [p |-> p, err |-> ErrProductAlreadyArchived]
    ELSE IF p.status = ProductStatusActive THEN [p |-> p, err |-> NoError]
    ELSE [p |-> [p EXCEPT !.status = ProductStatusActive,
                          !.changes = MarkDirty(p.changes, FieldStatus),
                          !.events = Append(p.events, ProductActivatedEvent(p.id))],
          err |-> NoError]

\* Deactivate reads the wall clock (time.Now()) for the discount check.
DeactivateNoDiscountCheck(p, wallNow) ==
    IF p.archivedAt # NilTime THEN [p |-> p, err |-> ErrProductAlreadyArchived]
    ELSE IF p.status = ProductStatusInactive THEN [p |-> p, err |-> NoError]
    ELSE [p |-> [p EXCEPT !.status = ProductStatusInactive,
                          !.changes = MarkDirty(p.changes, FieldStatus),
                          !.events = Append(p.events, ProductDeactivatedEvent(p.id))],
          err |-> NoError]

\* a Deactivate that changes the status before it looks at the discount
DeactivateThenChecksDiscount(p, wallNow) ==
    IF p.archivedAt # NilTime THEN [p |-> p, err |-> ErrProductAlreadyArchived]
    ELSE IF p.discount # NilDiscount /\ IsValidAt(p.discount, wallNow)
         THEN [p |-> [p EXCEPT !.status = ProductStatusInactive,
                               !.changes = MarkDirty(p.changes, FieldStatus)],
               err |-> ErrProductHasActiveDiscount]
    ELSE IF p.status = ProductStatusInactive THEN [p |-> p, err |-> NoError]
    ELSE [p |-> [p EXCEPT !.status = ProductStatusInactive,
                          !.changes = MarkDirty(p.changes, FieldStatus),
                          !.events = Append(p.events, ProductDeactivatedEvent(p.id))],
          err |-> NoError]

Deactivate(p, wallNow) ==
    IF p.archivedAt # NilTime THEN [p |-> p, err |-> ErrProductAlreadyArchived]
    ELSE IF p.discount # NilDiscount /\ IsValidAt(p.discount, wallNow)
         THEN [p |-> p, err |-> ErrProductHasActiveDiscount]
    ELSE IF p.status = ProductStatusInactive THEN [p |-> p, err |-> NoError]
    ELSE [p |-> [p EXCEPT !.status = ProductStatusInactive,
                          !.changes = MarkDirty(p.changes, FieldStatus),
                          !.events = Append(p.events, ProductDeactivatedEvent(p.id))],
          err |-> NoError]

\* an archival that leaves the change tracker alone
ArchiveForgetsDirty(p, now) ==
    IF p.archivedAt # NilTime THEN [p |-> p, err |-> ErrProductAlreadyArchived]
    ELSE [p |-> [p EXCEPT !.archivedAt = now,
                          !.events = Append(p.events, ProductArchivedEvent(p.id))],
          err |-> NoError]

Archive(p, now) ==
    IF p.archivedAt # NilTime THEN [p |-> p, err |-> ErrProductAlreadyArchived]
    ELSE [p |-> [p EXCEPT !.archivedAt = now,
                          !.changes = MarkDirty(p.changes, FieldArchivedAt),
                          !.events = Append(p.events, ProductArchivedEvent(p.id))],
          err |-> NoError]

RemoveDiscountKeepsDiscount(p) ==
    IF p.discount = NilDiscount THEN [p |-> p, err |-> NoError]
    ELSE [p |-> [p EXCEPT !.changes = MarkDirty(p.changes, FieldDiscount),
                          !.events = Append(p.events, DiscountRemovedEvent(p.id))],
          err |-> NoError]

RemoveDiscount(p) ==
    IF p.discount = NilDiscount THEN [p |-> p, err |-> NoError]
    ELSE [p |-> [p EXCEPT !.discount = NilDiscount,
                          !.changes = MarkDirty(p.changes, FieldDiscount),
                          !.events = Append(p.events, DiscountRemovedEvent(p.id))],
          err |-> NoError]

\* ------------------------------------------------------- PricingCalculator
CalculateEffectivePriceIgnoresWindow(p, now) ==
    IF p.basePrice = NilMoney THEN NilMoney
    ELSE IF p.discount = NilDiscount \/ p.discount.Amount = NilMoney THEN p.basePrice
    ELSE Multiply(p.basePrice, Subtract(NewMoney(100), p.discount.Amount))

CalculateEffectivePriceTakesAmountOff(p, now) ==
    IF p.basePrice = NilMoney THEN NilMoney
    ELSE IF p.discount = NilDiscount \/ p.discount.Amount = NilMoney THEN p.basePrice
    ELSE IF ~IsValidAt(p.discount, now) THEN p.basePrice
    ELSE Subtract(p.basePrice, p.discount.Amount)

CalculateEffectivePrice(p, now) ==
    IF p.basePrice = NilMoney THEN NilMoney
    ELSE IF p.discount = NilDiscount \/ p.discount.Amount = NilMoney THEN p.basePrice
    ELSE IF ~IsValidAt(p.discount, now) THEN p.basePrice
    ELSE Multiply(p.basePrice, Subtract(NewMoney(100), p.discount.Amount))

\* ------------------------------------------------- Spec: the aggregate alone
CountEvents(events, name) == Cardinality({i \in 1..Len(events) : events[i].name = name})

RunTarget(op) == IF op = "Activate" THEN ProductStatusActive ELSE ProductStatusInactive
RunEvent(op) == IF op = "Activate" THEN "product_activated" ELSE "product_deactivated"

NoRun == [n |-> 0, was |-> FALSE, added |-> 0, ok |-> FALSE]

\* bookkeeping of one domain call: op was called on product with discount
\* argument d (NilDiscount when the method takes none) and returned r
Called(op, r, d) ==
    /\ Len(r.p.events) <= MaxEvents
    /\ product' = r.p
    /\ ret' = [op |-> op, err |-> r.err,
               dValid |-> (d # NilDiscount /\ IsValidAt(d, clock))]
    /\ stage' = IF /\ op = "Deactivate"
                   /\ r.err = ErrProductHasActiveDiscount
                   /\ product.status = ProductStatusActive THEN 1
                ELSE IF op = "RemoveDiscount" /\ stage = 1 THEN 2
                ELSE IF op = "Deactivate" /\ stage = 2 THEN 3
                ELSE 0
    /\ run' = IF op \in {"Activate", "Deactivate"}
              THEN LET added == CountEvents(r.p.events, RunEvent(op))
                                  - CountEvents(product.events, RunEvent(op))
                   IN IF ret.op = op
                      THEN [run EXCEPT !.n = IF run.n < MaxRun THEN run.n + 1 ELSE run.n,
                                       !.added = run.added + added,
                                       !.ok = run.ok \/ r.err = NoError]
                      ELSE [n |-> 1, was |-> (product.status = RunTarget(op)),
                            added |-> added, ok |-> (r.err = NoError)]
              ELSE NoRun
    /\ applied' = IF op = "ApplyDiscount" /\ r.err = NoError THEN d ELSE applied
    /\ removedSince' = IF op = "ApplyDiscount" /\ r.err = NoError THEN FALSE
                       ELSE IF op = "RemoveDiscount" /\ r.err = NoError THEN TRUE
                       ELSE removedSince
    /\ UNCHANGED <<clock, storageVars, probeVars>>

CallApplyDiscount ==
    \E d \in Discounts : Called("ApplyDiscount", ApplyDiscount(product, d, clock), d)

CallUpdateDetails ==
    \E n \in Names, x \in Descriptions, c \in Categories :
        Called("UpdateDetails", UpdateDetails(product, n, x, c), NilDiscount)

CallActivate == Called("Activate", Activate(product), NilDiscount)

CallDeactivate == Called("Deactivate", Deactivate(product, clock), NilDiscount)

CallArchive == Called("Archive", Archive(product, clock), NilDiscount)

CallRemoveDiscount == Called("RemoveDiscount", RemoveDiscount(product), NilDiscount)

\* the clock never goes back
Tick ==
    /\ clock < MaxTime
    /\ clock' = clock + 1
    /\ UNCHANGED <<aggregateVars, storageVars, probeVars>>


\* ------------------------------ SpecUC: storage, outbox and the use cases
Procs == {"e1", "e2"}

\* a conversion that leaves the status column at its zero value
domainToModelDropsStatus(p) ==
    [product_id |-> p.id, name |-> p.name, description |-> p.description,
     category |-> p.category,
     base_price_numerator |-> IF p.basePrice # NilMoney THEN p.basePrice.num ELSE 0,
     base_price_denominator |-> IF p.basePrice # NilMoney THEN p.basePrice.den ELSE 1,
     discount |-> p.discount, status |-> StatusUnset, archived_at |-> p.archivedAt]

\* the product as the products table holds it (m_product.Product); the four
\* discount columns travel together and are kept as one value
domainToModel(p) ==
    [product_id |-> p.id, name |-> p.name, description |-> p.description,
     category |-> p.category,
     base_price_numerator |-> IF p.basePrice # NilMoney THEN p.basePrice.num ELSE 0,
     base_price_denominator |-> IF p.basePrice # NilMoney THEN p.basePrice.den ELSE 1,
     discount |-> p.discount, status |-> p.status, archived_at |-> p.archivedAt]

modelToDomain(m) ==
    ReconstructProduct(m.product_id, m.name, m.description, m.category,
        IF m.base_price_denominator # 0
        THEN NewMoneyFromFraction(m.base_price_numerator, m.base_price_denominator)
        ELSE NilMoney,
        m.discount,
        IF m.status # ProductStatusActive /\ m.status # ProductStatusInactive
        THEN ProductStatusInactive ELSE m.status,
        m.archived_at)

\* the product as a read reports it (SpannerReadModel.modelToDTO): the status
\* is the stored string, as it is
modelToDTO(m) ==
    [ID |-> m.product_id, Name |-> m.name, Description |-> m.description,
     Category |-> m.category,
     BasePrice |-> IF m.base_price_denominator # 0
                   THEN NewMoneyFromFraction(m.base_price_numerator,
                                             m.base_price_denominator)
                   ELSE NilMoney,
     Discount |-> m.discount, Status |-> m.status, ArchivedAt |-> m.archived_at]

\* the columns that hold each field of the stored product
FieldColumns(f) ==
    CASE f = "product_id" -> {"product_id"}
      [] f = "name" -> {"name"}
      [] f = "description" -> {"description"}
      [] f = "category" -> {"category"}
      [] f = "base_price_numerator" -> {"base_price_numerator"}
      [] f = "base_price_denominator" -> {"base_price_denominator"}
      [] f = "discount" -> {"discount_id", "discount_amount",
                            "discount_start_date", "discount_end_date"}
      [] f = "status" -> {"status"}
      [] f = "archived_at" -> {"archived_at"}

AllColumns == UNION {FieldColumns(f) : f \in DOMAIN domainToModel(
                  NewProduct(ProductID, "n1", "x1", "c1", NilMoney))} \cup {"updated_at"}

InsertMut(p) ==
    [table |-> "products", op |-> "insert", cols |-> AllColumns, vals |-> domainToModel(p)]

\* an update that writes the whole row
UpdateMutFullRow(p) ==
    [table |-> "products", op |-> "update", cols |-> AllColumns, vals |-> domainToModel(p)]

\* the mutation carries the values of the listed columns only
UpdateMut(p) ==
    LET columns ==
            {"product_id"}
            \cup (IF Dirty(p.changes, FieldName) THEN {"name"} ELSE {})
            \cup (IF Dirty(p.changes, FieldDescription) THEN {"description"} ELSE {})
            \cup (IF Dirty(p.changes, FieldCategory) THEN {"category"} ELSE {})
            \cup (IF Dirty(p.changes, "base_price")
                  THEN {"base_price_numerator", "base_price_denominator"} ELSE {})
            \cup (IF Dirty(p.changes, FieldDiscount)
                  THEN {"discount_id", "discount_amount",
                        "discount_start_date", "discount_end_date"} ELSE {})
            \cup (IF Dirty(p.changes, FieldStatus) THEN {"status"} ELSE {})
            \cup (IF Dirty(p.changes, FieldArchivedAt) THEN {"archived_at"} ELSE {})
            \cup {"updated_at"}
        model == domainToModel(p)
    IN [table |-> "products", op |-> "update", cols |-> columns,
        vals |-> [f \in {g \in DOMAIN model : FieldColumns(g) \subseteq columns}
                    |-> model[f]]]

\* an outbox record that is born processed
OutboxInsertMutProcessed(event, now) ==
    [table |-> "outbox_events", op |-> "insert", cols |-> {},
     vals |-> [event_type |-> event.name, aggregate_id |-> event.product_id,
               payload |-> event.discount_id, status |-> "processed",
               processed_at |-> now]]

\* the outbox record of one event (event_id, a fresh uuid, and created_at are
\* left out: nothing modelled reads them)
OutboxInsertMut(event, now) ==
    [table |-> "outbox_events", op |-> "insert", cols |-> {},
     vals |-> [event_type |-> event.name, aggregate_id |-> event.product_id,
               payload |-> event.discount_id, status |-> "pending",
               processed_at |-> NilTime]]

NilMut == [table |-> "", op |-> "nil", cols |-> {}, vals |-> <<>>]

\* a conversion that drops the event json.Marshal rejects and reports no error
eventToOutboxMutationSwallows(event, now, marshalOK) ==
    IF ~marshalOK THEN [mut |-> NilMut, err |-> NoError]
    ELSE [mut |-> OutboxInsertMut(event, now), err |-> NoError]

\* eventToOutboxMutation of create_product and activate_product: a marshal
\* failure is returned to Execute
eventToOutboxMutation(event, now, marshalOK) ==
    IF ~marshalOK THEN [mut |-> NilMut, err |-> ErrMarshal]
    ELSE [mut |-> OutboxInsertMut(event, now), err |-> NoError]

\* eventToOutboxMutation of update_product: a marshal failure yields a nil
\* mutation and no error
updateEventToOutboxMutation(event, now, marshalOK) ==
    IF ~marshalOK THEN NilMut ELSE OutboxInsertMut(event, now)

\* commitplan.Plan
NewPlan == <<>>
PlanAdd(plan, mut) == IF mut # NilMut THEN Append(plan, mut) ELSE plan

\* the event loop of Execute: failed is the set of positions whose event
\* json.Marshal rejects
RECURSIVE CollectEvents(_, _, _, _, _)
CollectEvents(plan, events, i, now, failed) ==
    IF i > Len(events) THEN [plan |-> plan, err |-> NoError]
    ELSE LET r == eventToOutboxMutation(events[i], now, i \notin failed)
         IN IF r.err # NoError THEN [plan |-> plan, err |-> r.err]
            ELSE CollectEvents(PlanAdd(plan, r.mut), events, i + 1, now, failed)

RECURSIVE UpdateCollectEvents(_, _, _, _, _)
UpdateCollectEvents(plan, events, i, now, failed) ==
    IF i > Len(events) THEN plan
    ELSE UpdateCollectEvents(
             PlanAdd(plan, updateEventToOutboxMutation(events[i], now, i \notin failed)),
             events, i + 1, now, failed)

OutboxInserts(plan) == SelectSeq(plan, LAMBDA m : m.table = "outbox_events")

EventNames(events) == [i \in 1..Len(events) |-> events[i].name]

\* a store that keeps the first write: an update of an existing row is dropped
ApplyMutationKeepsRow(st, mut) ==
    IF mut.table = "outbox_events"
    THEN [st EXCEPT !.outbox = Append(st.outbox, mut.vals)]
    ELSE IF mut.op = "insert"
    THEN IF st.row.exists THEN [st EXCEPT !.ok = FALSE]
         ELSE [st EXCEPT !.row = [exists |-> TRUE, m |-> mut.vals]]
    ELSE IF ~st.row.exists THEN [st EXCEPT !.ok = FALSE]
         ELSE st

\* a store whose update replaces the row: a column the mutation does not
\* list falls back to its zero value
ApplyMutationReplacesRow(st, mut) ==
    IF mut.table = "outbox_events"
    THEN [st EXCEPT !.outbox = Append(st.outbox, mut.vals)]
    ELSE IF mut.op = "insert"
    THEN IF st.row.exists THEN [st EXCEPT !.ok = FALSE]
         ELSE [st EXCEPT !.row = [exists |-> TRUE, m |-> mut.vals]]
    ELSE IF ~st.row.exists THEN [st EXCEPT !.ok = FALSE]
         ELSE [st EXCEPT !.row.m =
                  [f \in DOMAIN st.row.m |->
                      IF f \in DOMAIN mut.vals THEN mut.vals[f]
                      ELSE domainToModel(NewProduct("", "", "", "", NilMoney))[f]]]

\* one mutation against the tables; ok turns FALSE when Spanner rejects it
\* (insert of an existing key, update of a missing one)
ApplyMutation(st, mut) ==
    IF mut.table = "outbox_events"
    THEN [st EXCEPT !.outbox = Append(st.outbox, mut.vals)]
    ELSE IF mut.op = "insert"
    THEN IF st.row.exists THEN [st EXCEPT !.ok = FALSE]
         ELSE [st EXCEPT !.row = [exists |-> TRUE, m |-> mut.vals]]
    ELSE IF ~st.row.exists THEN [st EXCEPT !.ok = FALSE]
         ELSE [st EXCEPT !.row.m =
                  [f \in DOMAIN st.row.m |->
                      IF f \in DOMAIN mut.vals THEN mut.vals[f]
                      ELSE st.row.m[f]]]

RECURSIVE ApplyMutations(_, _, _)
ApplyMutations(st, plan, i) ==
    IF i > Len(plan) THEN st
    ELSE ApplyMutations(ApplyMutation(st, plan[i]), plan, i + 1)

NoRow == [exists |-> FALSE,
          m |-> domainToModel(NewProduct("", "", "", "", NilMoney))]

Idle == [pc |-> "idle", uc |-> "", plan |-> <<>>, events |-> <<>>, bad |-> FALSE]

\* events stored by an apply or waiting for one
EventLoad ==
    LET RECURSIVE Sum(_)
        Sum(S) == IF S = {} THEN 0
                  ELSE LET e == CHOOSE x \in S : TRUE
                       IN Len(execs[e].events) + Sum(S \ {e})
    IN Len(committed) + Sum(Procs)

\* An execution can start in slot e. The executions are interchangeable: the
\* second slot is taken only while the first is in flight.
CanStart(e) ==
    /\ execs[e].pc = "idle"
    /\ e = "e2" => execs["e1"].pc = "apply"

\* the values of type *domain.DomainError
DomainErrors == {ErrProductNotActive, ErrInvalidDiscountPeriod, ErrProductNotFound,
                 ErrProductAlreadyArchived, ErrDiscountAlreadyActive, ErrInvalidPrice,
                 ErrProductHasActiveDiscount, ErrInvalidDiscountID,
                 ErrInvalidDiscountAmount, ErrInvalidDiscountDateRange}

\* The error as Execute hands it to the handler. create_product returns its
\* two input errors as they are; every other error return of a use case is
\* fmt.Errorf("...: %w", err), a *fmt.wrapError around the cause.
ExecuteError(uc, err) ==
    [cause |-> err,
     wrapped |-> (err # NoError
                  /\ ~(uc = "create" /\ err \in {ErrBasePriceRequired, ErrInvalidPrice}))]

\* MapDomainError: the type assertion err.(*domain.DomainError) holds only for
\* an error that is itself a DomainError, not for one that wraps it
MapDomainError(e) ==
    IF e.cause = NoError THEN "OK"
    ELSE IF e.wrapped \/ e.cause \notin DomainErrors THEN "Internal"
    ELSE CASE e.cause = ErrProductNotFound -> "NotFound"
           [] e.cause = ErrProductNotActive -> "FailedPrecondition"
           [] e.cause = ErrInvalidDiscountPeriod -> "InvalidArgument"
           [] e.cause = ErrProductAlreadyArchived -> "FailedPrecondition"
           [] e.cause = ErrDiscountAlreadyActive -> "AlreadyExists"
           [] e.cause = ErrInvalidPrice -> "InvalidArgument"
           [] e.cause = ErrProductHasActiveDiscount -> "FailedPrecondition"
           [] OTHER -> "Internal"

\* Execute returned without calling Apply, and the handler mapped the error
Return(uc, err, bad) ==
    /\ result' = [err |-> err, bad |-> bad]
    /\ reply' = MapDomainError(ExecuteError(uc, err))
    /\ UNCHANGED <<row, outbox, execs, committed>>

\* Execute reached committer.Apply with the plan
CallApply(e, uc, plan, events, bad) ==
    /\ EventLoad + Len(events) <= MaxOutbox
    /\ execs' = [execs EXCEPT ![e] = [pc |-> "apply", uc |-> uc, plan |-> plan,
                                     events |-> EventNames(events), bad |-> bad]]
    /\ UNCHANGED <<row, outbox, committed, result, reply>>

\* a load that hands back a blank product when the read fails
LoadSwallows(loadOK) ==
    [p |-> modelToDomain(IF loadOK /\ row.exists THEN row.m ELSE NoRow.m), err |-> NoError]

\* repo.Load
Load(loadOK) ==
    IF ~loadOK THEN [p |-> modelToDomain(NoRow.m), err |-> ErrLoad]
    ELSE IF ~row.exists THEN [p |-> modelToDomain(NoRow.m), err |-> ErrProductNotFound]
    ELSE [p |-> modelToDomain(row.m), err |-> NoError]

\* steps 3 to 5 of Execute once the domain method has returned r
GoldenMutation(e, uc, r, failed) ==
    IF r.err # NoError THEN Return(uc, r.err, FALSE)
    ELSE LET c == CollectEvents(PlanAdd(NewPlan, UpdateMut(r.p)), r.p.events, 1,
                                clock, failed)
         IN IF c.err # NoError THEN Return(uc, c.err, TRUE)
            ELSE IF Len(c.plan) > 0
                 THEN CallApply(e, uc, c.plan, r.p.events, failed # {})
                 ELSE Return(uc, NoError, failed # {})

NoBuilt == [done |-> FALSE, id |-> "", name |-> "", description |-> "", category |-> "",
            basePrice |-> NilMoney, p |-> NewProduct("", "", "", "", NilMoney)]

NoQuote == [done |-> FALSE,
            p |-> ReconstructProduct("", "", "", "", NilMoney, NilDiscount, StatusUnset, NilTime),
            t |-> 0, price |-> NilMoney]

NoValidated == [done |-> FALSE, d |-> NilDiscount, err |-> NoError]

NoCalled == [done |-> FALSE, op |-> "",
             p |-> ReconstructProduct("", "", "", "", NilMoney, NilDiscount, StatusUnset, NilTime),
             name |-> "", description |-> "", category |-> "", d |-> NilDiscount, t |-> 0,
             mut |-> NilMut,
             r |-> [p |-> ReconstructProduct("", "", "", "", NilMoney, NilDiscount,
                                             StatusUnset, NilTime),
                    err |-> NoError]]

NoSums == [done |-> FALSE, a |-> NewMoney(0), b |-> NewMoney(0),
           aAfter |-> NewMoney(0), bAfter |-> NewMoney(0),
           add |-> NewMoney(0), addRev |-> NewMoney(0), subtract |-> NewMoney(0),
           multiply |-> NewMoney(0), timesOne |-> NewMoney(0)]

NoConverted == [done |-> FALSE, m |-> NewMoney(0), proto |-> NilProtoMoney, cents |-> 0]

NoTracker == [op |-> "", ct |-> ZeroTracker, prev |-> ZeroTracker, field |-> "",
              p |-> ReconstructProduct("", "", "", "", NilMoney, NilDiscount, StatusUnset, NilTime)]

NoProbe == [done |-> FALSE, d |-> NilDiscount, t |-> 0, valid |-> FALSE, validGo |-> FALSE]

Init ==
    /\ product = NewProduct(ProductID, "n1", "x1", "c1", NewMoney(10000))
    /\ clock = 0
    /\ ret = [op |-> "", err |-> NoError, dValid |-> FALSE]
    /\ stage = 0
    /\ run = NoRun
    /\ applied = NilDiscount
    /\ removedSince = FALSE
    /\ row = NoRow
    /\ outbox = <<>>
    /\ execs = [e \in Procs |-> Idle]
    /\ committed = <<>>
    /\ result = [err |-> NoError, bad |-> FALSE]
    /\ reply = "OK"
    /\ probe = NoProbe
    /\ quote = NoQuote
    /\ built = NoBuilt
    /\ validated = NoValidated
    /\ called = NoCalled
    /\ sums = NoSums
    /\ converted = NoConverted
    /\ tracker = NoTracker

Next ==
    \/ CallApplyDiscount
    \/ CallUpdateDetails
    \/ CallActivate
    \/ CallDeactivate
    \/ CallArchive
    \/ CallRemoveDiscount
    \/ Tick

Spec == Init /\ [][Next]_vars

NilString == "<nil>"
NilOr(S) == S \cup {NilString}
OrElse(v, old) == IF v = NilString THEN old ELSE v

\* the names update requests carry
RequestNames == Names \cup {"n3"}
\* the base prices and discounts requests carry
BasePrices == {NilMoney, NewMoney(0), NewMoney(-100), NewMoney(10000)}
\* windows that open at instant 0, and structurally invalid discounts
RequestDiscounts == {d \in Discounts : d.StartDate = 0}
BadDiscounts ==
    {[ID |-> "", Amount |-> NewMoneyFromFraction(10, 100), StartDate |-> 0, EndDate |-> 1],
     [ID |-> "d1", Amount |-> NilMoney, StartDate |-> 0, EndDate |-> 1],
     [ID |-> "d1", Amount |-> NewMoneyFromFraction(3, 2), StartDate |-> 0, EndDate |-> 1]}

\* create_product.Execute on one request, up to the call of committer.Apply
ExecuteCreateRequest(e, name, description, category, basePrice) ==
    IF basePrice = NilMoney THEN Return("create", ErrBasePriceRequired, FALSE)
    ELSE IF Sign(basePrice) <= 0 THEN Return("create", ErrInvalidPrice, FALSE)
    ELSE LET p == NewProductAt(ProductID, name, description, category, basePrice, clock)
         IN \E failed \in SUBSET (1..Len(p.events)) :
              LET c == CollectEvents(PlanAdd(NewPlan, InsertMut(p)), p.events, 1,
                                     clock, failed)
              IN IF c.err # NoError THEN Return("create", c.err, TRUE)
                 ELSE CallApply(e, "create", c.plan, p.events, FALSE)

\* a create request arrives (one product id)
ExecuteCreate(e) ==
    /\ CanStart(e)
    /\ ~row.exists
    /\ \A f \in Procs : execs[f].uc # "create"
    /\ \E name \in Names, description \in Descriptions, category \in Categories,
          basePrice \in BasePrices :
          ExecuteCreateRequest(e, name, description, category, basePrice)
    /\ UNCHANGED <<clock, aggregateVars, probeVars>>

\* update_product.Execute up to the call of committer.Apply
ExecuteUpdate(e) ==
    /\ CanStart(e)
    /\ \E loadOK \in BOOLEAN, name \in NilOr(RequestNames), description \in Descriptions,
          category \in Categories :
          LET l == Load(loadOK)
              r == UpdateDetailsAt(l.p, OrElse(name, l.p.name),
                                   OrElse(description, l.p.description),
                                   OrElse(category, l.p.category), clock)
          IN IF l.err # NoError THEN Return("update", l.err, FALSE)
             ELSE IF r.err # NoError THEN Return("update", r.err, FALSE)
             ELSE \E failed \in SUBSET (1..Len(r.p.events)) :
                    LET plan == UpdateCollectEvents(PlanAdd(NewPlan, UpdateMut(r.p)),
                                                    r.p.events, 1, clock, failed)
                    IN IF Len(plan) > 0
                       THEN CallApply(e, "update", plan, r.p.events, failed # {})
                       ELSE Return("update", NoError, failed # {})
    /\ UNCHANGED <<clock, aggregateVars, probeVars>>

\* activate_product.Execute up to the call of committer.Apply
ExecuteActivate(e) ==
    /\ CanStart(e)
    /\ \E loadOK \in BOOLEAN :
          LET l == Load(loadOK)
              r == Activate(l.p)
          IN IF l.err # NoError THEN Return("activate", l.err, FALSE)
             ELSE \E failed \in SUBSET (1..Len(r.p.events)) :
                    GoldenMutation(e, "activate", r, failed)
    /\ UNCHANGED <<clock, aggregateVars, probeVars>>

\* the use cases that follow the same steps around another domain method
ExecuteDeactivate(e) ==
    /\ CanStart(e)
    /\ \E loadOK \in BOOLEAN :
          LET l == Load(loadOK)
              r == Deactivate(l.p, clock)
          IN IF l.err # NoError THEN Return("deactivate", l.err, FALSE)
             ELSE \E failed \in SUBSET (1..Len(r.p.events)) :
                    GoldenMutation(e, "deactivate", r, failed)
    /\ UNCHANGED <<clock, aggregateVars, probeVars>>

ExecuteArchive(e) ==
    /\ CanStart(e)
    /\ \E loadOK \in BOOLEAN :
          LET l == Load(loadOK)
              r == Archive(l.p, clock)
          IN IF l.err # NoError THEN Return("archive", l.err, FALSE)
             ELSE \E failed \in SUBSET (1..Len(r.p.events)) :
                    GoldenMutation(e, "archive", r, failed)
    /\ UNCHANGED <<clock, aggregateVars, probeVars>>

ExecuteApplyDiscount(e) ==
    /\ CanStart(e)
    /\ \E loadOK \in BOOLEAN, d \in RequestDiscounts \cup BadDiscounts :
          LET l == Load(loadOK)
              r == ApplyDiscount(l.p, d, clock)
          IN IF Validate(d) # NoError THEN Return("apply_discount", Validate(d), FALSE)
             ELSE IF l.err # NoError THEN Return("apply_discount", l.err, FALSE)
             ELSE \E failed \in SUBSET (1..Len(r.p.events)) :
                    GoldenMutation(e, "apply_discount", r, failed)
    /\ UNCHANGED <<clock, aggregateVars, probeVars>>

ExecuteRemoveDiscount(e) ==
    /\ CanStart(e)
    /\ \E loadOK \in BOOLEAN :
          LET l == Load(loadOK)
              r == RemoveDiscount(l.p)
          IN IF l.err # NoError THEN Return("remove_discount", l.err, FALSE)
             ELSE \E failed \in SUBSET (1..Len(r.p.events)) :
                    GoldenMutation(e, "remove_discount", r, failed)
    /\ UNCHANGED <<clock, aggregateVars, probeVars>>

\* SpannerCommitter.Apply commits: every mutation of the plan becomes visible
\* in one step
Apply(e) ==
    /\ execs[e].pc = "apply"
    /\ LET st == ApplyMutations([row |-> row, outbox |-> outbox, ok |-> TRUE],
                                execs[e].plan, 1)
       IN /\ st.ok
          /\ row' = st.row
          /\ outbox' = st.outbox
    /\ committed' = committed \o execs[e].events
    /\ result' = [err |-> NoError, bad |-> execs[e].bad]
    /\ reply' = MapDomainError(ExecuteError(execs[e].uc, NoError))
    /\ execs' = [execs EXCEPT ![e] = Idle]
    /\ UNCHANGED <<clock, aggregateVars, probeVars>>

\* SpannerCommitter.Apply returns an error: no mutation of the plan is visible
ApplyFails(e) ==
    /\ execs[e].pc = "apply"
    /\ result' = [err |-> ErrApply, bad |-> execs[e].bad]
    /\ reply' = MapDomainError(ExecuteError(execs[e].uc, ErrApply))
    /\ execs' = [execs EXCEPT ![e] = Idle]
    /\ UNCHANGED <<row, outbox, committed, clock, aggregateVars, probeVars>>

\* The executions of one instant: the clock stands still in SpecUC.
NextUC ==
    \/ \E e \in Procs : ExecuteCreate(e)
    \/ \E e \in Procs : ExecuteUpdate(e)
    \/ \E e \in Procs : ExecuteActivate(e)
    \/ \E e \in Procs : ExecuteDeactivate(e)
    \/ \E e \in Procs : ExecuteArchive(e)
    \/ \E e \in Procs : ExecuteApplyDiscount(e)
    \/ \E e \in Procs : ExecuteRemoveDiscount(e)
    \/ \E e \in Procs : Apply(e)
    \/ \E e \in Procs : ApplyFails(e)

SpecUC == Init /\ [][NextUC]_vars

\* -------- SpecRace: status and discount executions on a product in service
\* The tables after a create and an activate have committed: the row of an
\* active product without discount and the two outbox records.
StoredActive ==
    LET created == NewProductAt(ProductID, "n1", "x1", "c1", NewMoney(10000), 0)
        first == CollectEvents(PlanAdd(NewPlan, InsertMut(created)), created.events, 1, 0, {})
        inserted == ApplyMutations([row |-> NoRow, outbox |-> <<>>, ok |-> TRUE],
                                   first.plan, 1)
        activated == Activate(modelToDomain(inserted.row.m))
        second == CollectEvents(PlanAdd(NewPlan, UpdateMut(activated.p)),
                                activated.p.events, 1, 0, {})
    IN ApplyMutations(inserted, second.plan, 1)

\* committed starts empty: here it holds the events stored since this state
InitRace ==
    /\ product = NewProduct(ProductID, "n1", "x1", "c1", NewMoney(10000))
    /\ clock = 0
    /\ ret = [op |-> "", err |-> NoError, dValid |-> FALSE]
    /\ stage = 0
    /\ run = NoRun
    /\ applied = NilDiscount
    /\ removedSince = FALSE
    /\ row = StoredActive.row
    /\ outbox = StoredActive.outbox
    /\ execs = [e \in Procs |-> Idle]
    /\ committed = <<>>
    /\ result = [err |-> NoError, bad |-> FALSE]
    /\ reply = "OK"
    /\ probe = NoProbe
    /\ quote = NoQuote
    /\ built = NoBuilt
    /\ validated = NoValidated
    /\ called = NoCalled
    /\ sums = NoSums
    /\ converted = NoConverted
    /\ tracker = NoTracker

\* The status and discount executions of one instant on the stored product.
NextRace ==
    \/ \E e \in Procs : ExecuteActivate(e)
    \/ \E e \in Procs : ExecuteDeactivate(e)
    \/ \E e \in Procs : ExecuteApplyDiscount(e)
    \/ \E e \in Procs : ExecuteRemoveDiscount(e)
    \/ \E e \in Procs : Apply(e)
    \/ \E e \in Procs : ApplyFails(e)

SpecRace == InitRace /\ [][NextRace]_vars

\* ------------------------------------- SpecValidity: Discount.IsValidAt alone
ProbeTimes == 0..MaxProbe
ProbeDiscounts == [ID : {"d1"}, Amount : {NewMoneyFromFraction(10, 100)},
                   StartDate : ProbeTimes, EndDate : ProbeTimes]

\* one call of IsValidAt, by each of the two definitions the package carries
Probe ==
    /\ \E d \in ProbeDiscounts, t \in ProbeTimes :
          probe' = [done |-> TRUE, d |-> d, t |-> t,
                    valid |-> IsValidAt(d, t),
                    validGo |-> DiscountGoIsValidAt(d, t)]
    /\ UNCHANGED <<clock, aggregateVars, storageVars, quote, built, validated, called, sums, converted, tracker>>

NextValidity == Probe

SpecValidity == Init /\ [][NextValidity]_vars

\* ---------------------------- SpecPricing: CalculateEffectivePrice alone
QuotePrices == {NilMoney, NewMoney(10000), NewMoney(20000), NewMoney(1),
                NewMoneyFromFraction(1, 3)}
QuoteAmounts == {NilMoney, NewMoney(0), NewMoney(10), NewMoney(25),
                 NewMoneyFromFraction(1, 3), NewMoney(100)}
QuoteDiscounts == {NilDiscount} \cup
                  [ID : {"d1"}, Amount : QuoteAmounts,
                   StartDate : ProbeTimes, EndDate : ProbeTimes]

\* one call of CalculateEffectivePrice on a stored product
Quote ==
    /\ ~quote.done
    /\ \E basePrice \in QuotePrices, d \in QuoteDiscounts, t \in ProbeTimes :
          LET p == ReconstructProduct(ProductID, "n1", "x1", "c1", basePrice, d,
                                      ProductStatusActive, NilTime)
          IN quote' = [done |-> TRUE, p |-> p, t |-> t,
                       price |-> CalculateEffectivePrice(p, t)]
    /\ UNCHANGED <<clock, aggregateVars, storageVars, probe, built, validated, called, sums, converted, tracker>>

NextPricing == Quote

SpecPricing == Init /\ [][NextPricing]_vars

\* ------- SpecAttach: the price of a product, stored or fresh from the
\* apply-discount path (handler, use case, Product.ApplyDiscount)
\* ProtoMoneyToDomain: a pb.Money carries minor units, Money is amount / 100
ProtoMoneyToDomain(pbMoney) ==
    IF pbMoney.nil THEN NilMoney ELSE NewMoney(pbMoney.Amount)

ProtoDiscountToDomain(pbDiscount) ==
    [ID |-> pbDiscount.Id, Amount |-> ProtoMoneyToDomain(pbDiscount.Amount),
     StartDate |-> pbDiscount.StartDate, EndDate |-> pbDiscount.EndDate]

ErrInvalidArgument == "InvalidArgument"

\* step 1 of Handler.ApplyDiscount in the version that validates the request
\* (the product id and the two dates are always present here)
HandlerValidate(req) ==
    IF TrimSpace(req.Id) = "" THEN ErrInvalidArgument
    ELSE IF req.Amount.nil THEN ErrInvalidArgument
    ELSE IF req.Amount.Amount < 0 \/ req.Amount.Amount > 100 THEN ErrInvalidArgument
    ELSE IF ~Before(req.StartDate, req.EndDate) THEN ErrInvalidArgument
    ELSE NoError

\* apply_discount.Execute on the loaded product p: validate(), then the
\* domain method
ApplyDiscountExecute(p, d, now) ==
    IF Validate(d) # NoError THEN [p |-> p, err |-> Validate(d)]
    ELSE ApplyDiscount(p, d, now)

\* Handler.ApplyDiscount; apply_discount.go holds it twice, once with the
\* request checks (validates) and once with none
HandlerApplyDiscount(validates, req, p, now) ==
    IF validates /\ HandlerValidate(req) # NoError THEN [p |-> p, err |-> ErrInvalidArgument]
    ELSE ApplyDiscountExecute(p, ProtoDiscountToDomain(req), now)

\* the percentages requests carry, in minor units, and the requests
ProtoAmounts == {NilProtoMoney} \cup
                [nil : {FALSE}, Amount : {-1, 0, 25, 100, 101, 250}]
ProtoDiscounts == [Id : {"", "d1"}, Amount : ProtoAmounts,
                   StartDate : ProbeTimes, EndDate : ProbeTimes]

\* one apply-discount request on an active product without discount, then
\* one call of CalculateEffectivePrice on the product as the request left it
QuoteAttached ==
    /\ ~quote.done
    /\ \E validates \in BOOLEAN, basePrice \in QuotePrices \ {NilMoney},
          req \in ProtoDiscounts, now \in ProbeTimes, t \in ProbeTimes :
          LET p == ReconstructProduct(ProductID, "n1", "x1", "c1", basePrice, NilDiscount,
                                      ProductStatusActive, NilTime)
              r == HandlerApplyDiscount(validates, req, p, now)
          IN quote' = [done |-> TRUE, p |-> r.p, t |-> t,
                       price |-> CalculateEffectivePrice(r.p, t)]
    /\ UNCHANGED <<clock, aggregateVars, storageVars, probe, built, validated, called, sums, converted, tracker>>

NextAttach ==
    \/ Quote
    \/ QuoteAttached

SpecAttach == Init /\ [][NextAttach]_vars

\* ------------------------------------------- SpecConstruct: NewProduct alone
NewIDs == {"p1", "p2"}
NewNames == {"", "n1", "n2"}
NewDescriptions == {"x1", "x2"}
NewCategories == {"c1", "c2"}

\* one call of NewProduct
Construct ==
    /\ ~built.done
    /\ \E id \in NewIDs, name \in NewNames, description \in NewDescriptions,
          category \in NewCategories, basePrice \in QuotePrices :
          built' = [done |-> TRUE, id |-> id, name |-> name, description |-> description,
                    category |-> category, basePrice |-> basePrice,
                    p |-> NewProduct(id, name, description, category, basePrice)]
    /\ UNCHANGED <<clock, aggregateVars, storageVars, probe, quote, validated, called, sums, converted, tracker>>

NextConstruct == Construct

SpecConstruct == Init /\ [][NextConstruct]_vars

\* ------------------------------------- SpecValidate: Discount.Validate alone
ValidateIDs == {"", " ", "  ", "d1", " d1 "}
ValidateAmounts == {NilMoney, NewMoney(-1), NewMoney(0), NewMoney(10), NewMoney(100),
                    NewMoney(101), NewMoneyFromFraction(3, 2)}
ValidateDiscounts == [ID : ValidateIDs, Amount : ValidateAmounts,
                      StartDate : ProbeTimes, EndDate : ProbeTimes]

\* one call of Validate
CallValidate ==
    /\ ~validated.done
    /\ \E d \in ValidateDiscounts :
          validated' = [done |-> TRUE, d |-> d, err |-> Validate(d)]
    /\ UNCHANGED <<clock, aggregateVars, storageVars, probe, quote, built, called, sums, converted, tracker>>

NextValidate == CallValidate

SpecValidate == Init /\ [][NextValidate]_vars

\* ------------------------------- SpecMoney: the Money operations alone
MoneyNumerators == {-150, -1, 0, 1, 33, 100, 10000}
MoneyDenominators == {1, 3, 100}
MoneyValues == {NewMoneyFromFraction(n, d) : n \in MoneyNumerators, d \in MoneyDenominators}

\* Add, Subtract and Multiply on a and b. Each writes its result into a fresh
\* big.Rat (new(big.Rat)), so the operands hold afterwards what they held
\* before.
Operate ==
    /\ ~sums.done
    /\ \E a \in MoneyValues, b \in MoneyValues :
          sums' = [done |-> TRUE, a |-> a, b |-> b, aAfter |-> a, bAfter |-> b,
                   add |-> Add(a, b), addRev |-> Add(b, a),
                   subtract |-> Subtract(a, b), multiply |-> Multiply(a, b),
                   timesOne |-> Multiply(a, NewMoneyFromFraction(1, 1))]
    /\ UNCHANGED <<clock, aggregateVars, storageVars, probe, quote, built, validated, called, converted, tracker>>

NextMoney == Operate

SpecMoney == Init /\ [][NextMoney]_vars

\* ------------------- SpecConvert: Money to minor units at the boundary
ConvertValues == {NewMoneyFromFraction(n, d) :
                     n \in -MaxNumerator..MaxNumerator, d \in {1, 3, 7, 100, 200, 300}}

\* one conversion of m by DomainMoneyToProto and by BigRatToInt64
Convert ==
    /\ ~converted.done
    /\ \E m \in ConvertValues :
          converted' = [done |-> TRUE, m |-> m, proto |-> DomainMoneyToProto(m),
                        cents |-> BigRatToInt64(m)]
    /\ UNCHANGED <<clock, aggregateVars, storageVars, probe, quote, built, validated,
                   called, sums, tracker>>

NextConvert == Convert

SpecConvert == Init /\ [][NextConvert]_vars

\* ------------------------------- SpecMethod: one call of a Product method
Statuses == {StatusUnset, ProductStatusActive, ProductStatusInactive}
ArchivedAts == {NilTime, 0}

\* The receivers: the product NewProduct returns (status unset, no discount,
\* not archived) and the products ReconstructProduct returns for a stored
\* row. The change tracker is clean and no event is pending.
Receivers(names, descriptions, categories, discounts) ==
    {q \in {ReconstructProduct(ProductID, n, x, c, NewMoney(10000), d, st, a) :
                n \in names, x \in descriptions, c \in categories,
                d \in discounts, st \in Statuses, a \in ArchivedAts} :
        q.status = StatusUnset => (q.discount = NilDiscount /\ q.archivedAt = NilTime)}

StatusReceivers == Receivers({"n1"}, {"x1"}, {"c1"}, {NilDiscount} \cup ProbeDiscounts)
DetailReceivers == Receivers(Names, NewDescriptions, NewCategories, {NilDiscount})

\* method op, called on p with the arguments it takes, returned r; when it
\* returned nil the repository builds the update mutation of the product
MethodCall(op, p, name, description, category, d, t, r) ==
    /\ called' = [done |-> TRUE, op |-> op, p |-> p, name |-> name,
                  description |-> description, category |-> category,
                  d |-> d, t |-> t, r |-> r,
                  mut |-> IF r.err = NoError THEN UpdateMut(r.p) ELSE NilMut]
    /\ UNCHANGED <<clock, aggregateVars, storageVars, probe, quote, built, validated, sums, converted, tracker>>

OnceActivate ==
    /\ ~called.done
    /\ \E p \in StatusReceivers :
           MethodCall("Activate", p, "", "", "", NilDiscount, 0, Activate(p))

OnceDeactivate ==
    /\ ~called.done
    /\ \E p \in StatusReceivers, t \in ProbeTimes :
           MethodCall("Deactivate", p, "", "", "", NilDiscount, t, Deactivate(p, t))

OnceArchive ==
    /\ ~called.done
    /\ \E p \in StatusReceivers, t \in ProbeTimes :
           MethodCall("Archive", p, "", "", "", NilDiscount, t, Archive(p, t))

\* the discounts handed to ApplyDiscount: every window under each id
ArgumentDiscounts == {[d EXCEPT !.ID = id] : d \in ProbeDiscounts, id \in DiscountIDs}

OnceApplyDiscount ==
    /\ ~called.done
    /\ \E p \in StatusReceivers, d \in ArgumentDiscounts, t \in ProbeTimes :
           MethodCall("ApplyDiscount", p, "", "", "", d, t, ApplyDiscount(p, d, t))

OnceRemoveDiscount ==
    /\ ~called.done
    /\ \E p \in StatusReceivers :
           MethodCall("RemoveDiscount", p, "", "", "", NilDiscount, 0, RemoveDiscount(p))

OnceUpdateDetails ==
    /\ ~called.done
    /\ \E p \in DetailReceivers, name \in Names, description \in NewDescriptions,
          category \in NewCategories :
           MethodCall("UpdateDetails", p, name, description, category, NilDiscount, 0,
                      UpdateDetails(p, name, description, category))

NextMethod ==
    \/ OnceActivate
    \/ OnceDeactivate
    \/ OnceArchive
    \/ OnceApplyDiscount
    \/ OnceRemoveDiscount
    \/ OnceUpdateDetails

SpecMethod == Init /\ [][NextMethod]_vars

\* ------------------------------------ SpecTracker: the ChangeTracker alone
TrackerFields == {FieldName, FieldDescription, FieldCategory, FieldStatus,
                  FieldArchivedAt, FieldDiscount}

\* ct.MarkDirty(field)
TrackerMarkDirty ==
    \E field \in TrackerFields :
        tracker' = [tracker EXCEPT !.op = "MarkDirty", !.prev = tracker.ct, !.field = field,
                                   !.ct = ChangeTrackerMarkDirty(tracker.ct, field)]

\* ReconstructProduct from persisted state: the tracker is the product's
TrackerReconstruct ==
    \E n \in Names, st \in {ProductStatusActive, ProductStatusInactive}, a \in ArchivedAts :
        LET p == ReconstructProduct(ProductID, n, "x1", "c1", NewMoney(10000), NilDiscount,
                                    st, a)
        IN tracker' = [op |-> "ReconstructProduct",
                       ct |-> EmptyTracker,
                       prev |-> tracker.ct, field |-> "", p |-> p]

NextTracker ==
    \/ TrackerMarkDirty /\ UNCHANGED <<clock, aggregateVars, storageVars, probe, quote, built,
                                       validated, called, sums, converted>>
    \/ TrackerReconstruct /\ UNCHANGED <<clock, aggregateVars, storageVars, probe, quote,
                                         built, validated, called, sums, converted>>

SpecTracker == Init /\ [][NextTracker]_vars

\* ========================================================== claims on Spec
\* A step of Spec that leaves the clock alone is a domain call, and ret' names
\* the method called.
CallOf(op) == ret'.op = op /\ clock' = clock

Archived(p) == p.archivedAt # NilTime
HasValidDiscount(p, t) == p.discount # NilDiscount /\ IsValidAt(p.discount, t)

\* C1: once the product is archived, Activate, Deactivate, UpdateDetails and
\* ApplyDiscount all fail with ErrProductAlreadyArchived, whatever the status
\* and the discount passed. (None of the four changes archivedAt, so the
\* product was archived when the call was made.)
C1_ArchivedRejectsAll ==
    (Archived(product) /\ ret.op \in {"Activate", "Deactivate", "UpdateDetails", "ApplyDiscount"})
        => ret.err = ErrProductAlreadyArchived

\* C2: archival is terminal: no step taken on an archived product changes
\* its status, name, description, category, discount or archivedAt.
C2_ArchivalTerminal ==
    [][Archived(product) =>
          /\ product'.status = product.status
          /\ product'.name = product.name
          /\ product'.description = product.description
          /\ product'.category = product.category
          /\ product'.discount = product.discount
          /\ product'.archivedAt = product.archivedAt]_vars

\* C5: ApplyDiscount on a product whose status is not Active fails with
\* ErrProductNotActive and leaves the discount, the dirty set and the pending
\* events as they were.
C5_ApplyDiscountNotActive ==
    [][(CallOf("ApplyDiscount") /\ product.status # ProductStatusActive) =>
          /\ ret'.err = ErrProductNotActive
          /\ product'.discount = product.discount
          /\ product'.changes = product.changes
          /\ product'.events = product.events]_vars

C5_Witness ==
    /\ ret.op = "ApplyDiscount"
    /\ ret.err = ErrProductNotActive
    /\ ret.dValid
    /\ product.status = StatusUnset
    /\ product.discount = NilDiscount
    /\ product.events = <<>>

\* C6 as stated: ApplyDiscount on an Active product that carries a discount
\* valid at now fails with ErrDiscountAlreadyActive, whatever discount is
\* passed, and the attached discount and the pending events stay.
C6_AsStated ==
    [][(/\ CallOf("ApplyDiscount")
        /\ product.status = ProductStatusActive
        /\ HasValidDiscount(product, clock)) =>
          /\ ret'.err = ErrDiscountAlreadyActive
          /\ product'.discount = product.discount
          /\ product'.events = product.events]_vars

\* C6 amended: on an Active product that carries a discount valid at now,
\* ApplyDiscount(d, now) fails with ErrDiscountAlreadyActive when d is valid
\* at now and with ErrInvalidDiscountPeriod when it is not; either way the
\* attached discount and the pending events stay.
C6_SingleActiveDiscount ==
    [][(/\ CallOf("ApplyDiscount")
        /\ product.status = ProductStatusActive
        /\ HasValidDiscount(product, clock)) =>
          /\ ret'.err = IF ret'.dValid THEN ErrDiscountAlreadyActive
                        ELSE ErrInvalidDiscountPeriod
          /\ product'.discount = product.discount
          /\ product'.events = product.events]_vars

C6_Witness ==
    /\ ret.op = "ApplyDiscount"
    /\ ret.err = ErrDiscountAlreadyActive
    /\ ret.dValid
    /\ product.status = ProductStatusActive
    /\ HasValidDiscount(product, clock)

\* C7: Deactivate on an Active (not archived) product whose discount is valid
\* at the current instant fails with ErrProductHasActiveDiscount, the status
\* stays Active and no event is appended; after RemoveDiscount the next
\* Deactivate succeeds, sets the status Inactive and appends exactly one
\* ProductDeactivated event.
C7_DeactivateBlockedByDiscount ==
    [][/\ (/\ CallOf("Deactivate")
           /\ ~Archived(product)
           /\ product.status = ProductStatusActive
           /\ HasValidDiscount(product, clock)) =>
             /\ ret'.err = ErrProductHasActiveDiscount
             /\ product'.status = ProductStatusActive
             /\ product'.events = product.events
       /\ (CallOf("Deactivate") /\ stage = 2) =>
             /\ ret'.err = NoError
             /\ product'.status = ProductStatusInactive
             /\ product'.events = Append(product.events, ProductDeactivatedEvent(product.id))]_vars

C7_Witness ==
    /\ stage = 3
    /\ ret.op = "Deactivate"
    /\ ret.err = NoError
    /\ product.status = ProductStatusInactive

\* C8 as stated: on a product that is not archived, a run of n >= 1
\* consecutive Activate calls appends exactly one ProductActivated event if
\* the product was not Active before the run and none if it was, and the same
\* for Deactivate and ProductDeactivated.
C8_AsStated ==
    (ret.op \in {"Activate", "Deactivate"} /\ run.n >= 1 /\ ~Archived(product))
        => run.added = (IF run.was THEN 0 ELSE 1)

\* C8 amended: as stated for Activate; a run of consecutive Deactivate calls
\* appends exactly one ProductDeactivated event if the product was not
\* Inactive before the run and at least one call of the run was not refused
\* with ErrProductHasActiveDiscount, and none otherwise.
C8_Idempotent ==
    (ret.op \in {"Activate", "Deactivate"} /\ run.n >= 1 /\ ~Archived(product))
        => /\ run.added = (IF ~run.was /\ run.ok THEN 1 ELSE 0)
           /\ ret.op = "Activate" => run.ok

C8_Witness ==
    /\ ret.op = "Activate"
    /\ run.n >= 2
    /\ ~run.was
    /\ run.added = 1
    /\ ~Archived(product)

\* C9: an attached discount is the one passed to the most recent successful
\* ApplyDiscount, and no RemoveDiscount has returned since that call.
C9_DiscountProvenance ==
    product.discount # NilDiscount =>
        /\ applied # NilDiscount
        /\ product.discount = applied
        /\ ~removedSince

C9_Witness ==
    /\ product.discount # NilDiscount
    /\ product.discount = applied
    /\ CountEvents(product.events, "discount_removed") >= 1
    /\ CountEvents(product.events, "discount_applied") >= 2

\* C13: the status changes only along Unset -> Active, Active -> Inactive and
\* Inactive -> Active: no step moves an Unset product to Inactive and none
\* returns a product to Unset.
C13_StatusTransitions ==
    [][product'.status # product.status =>
          \/ product.status = StatusUnset /\ product'.status = ProductStatusActive
          \/ product.status = ProductStatusActive /\ product'.status = ProductStatusInactive
          \/ product.status = ProductStatusInactive /\ product'.status = ProductStatusActive]_vars

\* C34: a domain operation (Activate, Deactivate, Archive, UpdateDetails,
\* ApplyDiscount) that returns an error leaves the whole aggregate as it was:
\* status, details, discount, archivedAt, dirty fields and pending events.
C34_FailedOperationChangesNothing ==
    [][\A op \in {"Activate", "Deactivate", "Archive", "UpdateDetails", "ApplyDiscount"} :
          (CallOf(op) /\ ret'.err # NoError) =>
              /\ product'.status = product.status
              /\ product'.name = product.name
              /\ product'.description = product.description
              /\ product'.category = product.category
              /\ product'.discount = product.discount
              /\ product'.archivedAt = product.archivedAt
              /\ product'.changes = product.changes
              /\ product'.events = product.events
              /\ product' = product]_vars

C34_Witness ==
    /\ ret.op = "Deactivate"
    /\ ret.err = ErrProductHasActiveDiscount
    /\ product.status = ProductStatusActive
    /\ product.discount # NilDiscount
    /\ product.name = "n2"
    /\ product.changes = {FieldStatus, FieldName, FieldDiscount}
    /\ EventNames(product.events) = <<"product_activated", "discount_applied">>

\* C35: with a clock that never goes back, after any sequence of domain
\* operations an attached discount that is valid at the current instant
\* implies status Active: an Unset or Inactive product never carries a
\* currently valid discount.
C35_ValidDiscountImpliesActive ==
    HasValidDiscount(product, clock) => product.status = ProductStatusActive

C35_Witness ==
    /\ clock > 0
    /\ product.discount # NilDiscount
    /\ product.discount.StartDate <= clock
    /\ clock < product.discount.EndDate
    /\ product.status = ProductStatusActive
    /\ ret.op = "Deactivate"
    /\ ret.err = ErrProductHasActiveDiscount

\* ============================================================ claims on SpecUC
EventTypes(records) == [i \in 1..Len(records) |-> records[i].event_type]

\* C3: transactional outbox: in every storage state the outbox holds a record
\* for an event exactly when the state change that raised the event is
\* stored: the outbox records are, in order, the events of the applies that
\* committed.
C3_TransactionalOutbox == EventTypes(outbox) = committed

\* C4: when a pending event cannot be serialized the use case returns an
\* error and Apply is not called: no plan reaches Apply, and no execution
\* returns nil, with fewer outbox inserts than pending events.
C4_SerializationFailureAborts ==
    /\ \A e \in Procs :
          execs[e].pc = "apply" =>
              /\ ~execs[e].bad
              /\ Len(OutboxInserts(execs[e].plan)) = Len(execs[e].events)
    /\ result.bad => result.err \notin {NoError, ErrApply}

\* the execution in slot e returns nil from committer.Apply in this step
Commits(e, uc) ==
    /\ execs[e].pc = "apply"
    /\ execs[e].uc = uc
    /\ execs'[e].pc = "idle"
    /\ result'.err = NoError

C17_NoOpWritesNothing ==
    \A e \in Procs :
        (execs[e].pc = "apply" /\ execs[e].events = <<>>) =>
            \E i \in 1..Len(execs[e].plan) :
                /\ execs[e].plan[i].table = "products"
                /\ execs[e].plan[i].cols \ {"product_id", "updated_at"} # {}

\* the storage after the plans of e and then f are applied
AppliedInTurn(e, f) ==
    ApplyMutations(ApplyMutations([row |-> row, outbox |-> outbox, ok |-> TRUE],
                                  execs[e].plan, 1),
                   execs[f].plan, 1)

\* the values the plan of e writes to the products row
Written(e) ==
    LET ups == SelectSeq(execs[e].plan, LAMBDA m : m.table = "products" /\ m.op = "update")
    IN IF ups = <<>> THEN <<>> ELSE ups[1].vals

\* C22: when two executions on the same stored product both wait in Apply
\* with updates of the row (so at least one of them worked from a load the
\* other's commit makes stale), the store accepts both commits in either
\* order, and every field the later commit writes holds the later commit's
\* value, whatever the earlier one wrote: the writer that worked from the
\* stale load is not rejected.
C22_LastCommitWins ==
    \A e \in Procs, f \in Procs :
        (/\ e # f
         /\ execs[e].pc = "apply" /\ execs[f].pc = "apply"
         /\ execs[e].uc # "create" /\ execs[f].uc # "create") =>
            /\ AppliedInTurn(e, f).ok
            /\ \A c \in DOMAIN Written(f) : AppliedInTurn(e, f).row.m[c] = Written(f)[c]

C22_Witness ==
    /\ execs["e1"].pc = "apply" /\ execs["e2"].pc = "apply"
    /\ execs["e1"].uc = "update" /\ execs["e2"].uc = "update"
    /\ "name" \in DOMAIN Written("e1") /\ "name" \in DOMAIN Written("e2")
    /\ Written("e1").name # Written("e2").name
    /\ row.m.name \notin {Written("e1").name, Written("e2").name}
    /\ AppliedInTurn("e1", "e2").row.m.name = Written("e2").name
    /\ AppliedInTurn("e2", "e1").row.m.name = Written("e1").name

\* C38: when two executions on the same stored product wait in Apply with
\* updates of disjoint sets of fields, then after both commit, in either
\* order, the stored row shows both changes and no other column differs.
C38_DisjointUpdatesMerge ==
    \A e \in Procs, f \in Procs :
        (/\ e # f
         /\ execs[e].pc = "apply" /\ execs[f].pc = "apply"
         /\ Written(e) # <<>> /\ Written(f) # <<>>
         /\ (DOMAIN Written(e) \cap DOMAIN Written(f)) \subseteq {"product_id"}) =>
            /\ AppliedInTurn(e, f).ok
            /\ \A c \in DOMAIN Written(e) : AppliedInTurn(e, f).row.m[c] = Written(e)[c]
            /\ \A c \in DOMAIN Written(f) : AppliedInTurn(e, f).row.m[c] = Written(f)[c]
            /\ \A c \in DOMAIN row.m \ (DOMAIN Written(e) \cup DOMAIN Written(f)) :
                  AppliedInTurn(e, f).row.m[c] = row.m[c]
            /\ AppliedInTurn(e, f).row = AppliedInTurn(f, e).row

C38_Witness ==
    /\ execs["e1"].pc = "apply" /\ execs["e2"].pc = "apply"
    /\ execs["e1"].uc = "update" /\ execs["e2"].uc = "activate"
    /\ row.m.name = "n1" /\ row.m.status = ProductStatusInactive
    /\ DOMAIN Written("e1") = {"product_id", "name"}
    /\ DOMAIN Written("e2") = {"product_id", "status"}
    /\ AppliedInTurn("e1", "e2").row.m.name = "n2"
    /\ AppliedInTurn("e1", "e2").row.m.status = ProductStatusActive
    /\ AppliedInTurn("e2", "e1").row.m.name = "n2"
    /\ AppliedInTurn("e2", "e1").row.m.status = ProductStatusActive

\* the product row, the outbox and the committed events are as they were
StorageUnchanged == row' = row /\ outbox' = outbox /\ committed' = committed

\* C24: when the atomic apply fails the use case returns the apply error and
\* neither the row nor the outbox changes; when the load fails (the read
\* fails, or the product is not stored) the use case returns the load error,
\* the row and the outbox stay, and no plan reaches Apply: with no product
\* stored, only a create ever reaches Apply.
C24_PersistenceFailureLeavesStorage ==
    [][/\ \A e \in Procs :
             (execs[e].pc = "apply" /\ execs'[e].pc = "idle" /\ result'.err # NoError) =>
                 /\ result'.err = ErrApply
                 /\ StorageUnchanged
       /\ (execs' = execs /\ result'.err \in {ErrLoad, ErrProductNotFound}) =>
             StorageUnchanged
       /\ \A e \in Procs :
             (~row.exists /\ execs[e].pc = "idle" /\ execs'[e].pc = "apply") =>
                 execs'[e].uc = "create"
       /\ (~row.exists /\ execs' = execs /\ result' # result) =>
             /\ result'.err # NoError
             /\ StorageUnchanged]_vars

C24_Witness ==
    /\ result.err = ErrApply
    /\ row.exists
    /\ row.m.status = ProductStatusInactive
    /\ committed = <<"product_created">>
    /\ EventTypes(outbox) = <<"product_created">>
    /\ \A e \in Procs : execs[e].pc = "idle"

\* C28: every pending event of an execution is exactly one outbox insert of
\* its plan, in event order, and no later execution inserts it again: the
\* outbox holds as many records as the committed executions raised events.
C28_EventsDrainedOnce ==
    /\ \A e \in Procs :
          execs[e].pc = "apply" =>
              [i \in 1..Len(OutboxInserts(execs[e].plan)) |->
                  OutboxInserts(execs[e].plan)[i].vals.event_type] = execs[e].events
    /\ Len(outbox) = Len(committed)

EventNamesKnown == {"product_created", "product_updated", "product_activated",
                    "product_deactivated", "product_archived", "discount_applied",
                    "discount_removed"}

\* the outbox record r is a pending record of an event of product id
PendingRecordOf(r, id) ==
    /\ r.status = "pending"
    /\ r.processed_at = NilTime
    /\ r.event_type \in EventNamesKnown
    /\ r.aggregate_id = id

\* C29: every outbox record a use case writes is pending, has no
\* processed_at, carries the name of an event the execution raised and the id
\* of the product acted on; and no step changes or removes a stored record:
\* the outbox only grows at its end.
C29_OutboxRecordsPending ==
    [][/\ \A i \in 1..Len(outbox') : PendingRecordOf(outbox'[i], ProductID)
       /\ \A e \in Procs :
             execs'[e].pc = "apply" =>
                 \A i \in 1..Len(OutboxInserts(execs'[e].plan)) :
                     /\ PendingRecordOf(OutboxInserts(execs'[e].plan)[i].vals, ProductID)
                     /\ \E j \in 1..Len(execs'[e].events) :
                           execs'[e].events[j] =
                               OutboxInserts(execs'[e].plan)[i].vals.event_type
       /\ Len(outbox') >= Len(outbox)
       /\ SubSeq(outbox', 1, Len(outbox)) = outbox]_vars

C29_Witness ==
    /\ Len(outbox) = 3
    /\ EventTypes(outbox) = <<"product_created", "product_activated", "discount_applied">>
    /\ \A i \in 1..3 : PendingRecordOf(outbox[i], ProductID)
    /\ row.m.product_id = ProductID

\* C33: a create whose base price is zero or negative fails with InvalidPrice
\* (InvalidArgument at the client) before a product is constructed: no plan
\* waits for an apply, and neither the product row nor the outbox changes.
C33_NonPositivePriceRejected ==
    [][\A e \in Procs, name \in Names, description \in Descriptions,
          category \in Categories, basePrice \in BasePrices :
          (/\ basePrice # NilMoney
           /\ basePrice.num <= 0
           /\ CanStart(e)
           /\ ~row.exists
           /\ ExecuteCreateRequest(e, name, description, category, basePrice)) =>
              /\ result'.err = ErrInvalidPrice
              /\ reply' = "InvalidArgument"
              /\ execs' = execs
              /\ \A f \in Procs : execs'[f].pc # "apply" \/ execs'[f].uc # "create"
              /\ StorageUnchanged
              /\ ~row'.exists]_vars

C33_Witness ==
    /\ result.err = ErrInvalidPrice
    /\ reply = "InvalidArgument"
    /\ ~row.exists
    /\ outbox = <<>>
    /\ committed = <<>>
    /\ \A e \in Procs : execs[e] = Idle

\* C37: once the stored row has archived_at set, no later commit changes its
\* name, description, category, status or discount columns, whichever
\* execution commits and whenever it loaded the product.
C37_ArchivedRowFrozen ==
    [][(row.exists /\ row.m.archived_at # NilTime) =>
          /\ row'.exists
          /\ \A column \in {"name", "description", "category", "status", "discount"} :
                row'.m[column] = row.m[column]]_vars

\* the status the spec gives each domain error
StatusOf(err) ==
    CASE err = ErrProductNotFound -> "NotFound"
      [] err \in {ErrProductNotActive, ErrProductAlreadyArchived,
                  ErrProductHasActiveDiscount} -> "FailedPrecondition"
      [] err \in {ErrInvalidDiscountPeriod, ErrInvalidPrice} -> "InvalidArgument"
      [] err = ErrDiscountAlreadyActive -> "AlreadyExists"

\* C23: when a use case fails with ProductNotFound, ProductNotActive,
\* InvalidDiscountPeriod, ProductAlreadyArchived, DiscountAlreadyActive,
\* ProductHasActiveDiscount or InvalidPrice, the handler answers with the
\* status of that error (NotFound, FailedPrecondition, InvalidArgument,
\* AlreadyExists), never with Internal.
C23_DomainErrorStatus ==
    result.err \in {ErrProductNotFound, ErrProductNotActive, ErrInvalidDiscountPeriod,
                    ErrProductAlreadyArchived, ErrDiscountAlreadyActive,
                    ErrProductHasActiveDiscount, ErrInvalidPrice} =>
        /\ reply = StatusOf(result.err)
        /\ reply # "Internal"

\* ==================================================== claims on SpecPricing
\* basePrice * (1 - amount) as a fraction in lowest terms
Discounted(basePrice, amount) ==
    Rat(basePrice.num * (amount.den - amount.num), basePrice.den * amount.den)

QuoteValid ==
    /\ quote.done
    /\ quote.p.discount # NilDiscount
    /\ quote.p.discount.Amount # NilMoney
    /\ quote.p.discount.StartDate <= quote.t
    /\ quote.t < quote.p.discount.EndDate

\* C11: for a product with a base price and an attached discount valid at
\* now, the effective price is basePrice * (1 - amount) exactly: 10/100 off
\* 10000/100 is 9000/100, and amount 0 gives basePrice.
C11_EffectivePriceExact ==
    (QuoteValid /\ quote.p.basePrice # NilMoney) =>
        /\ quote.price = Discounted(quote.p.basePrice, quote.p.discount.Amount)
        /\ (quote.p.basePrice = NewMoney(10000) /\ quote.p.discount.Amount = NewMoney(10))
              => quote.price = NewMoneyFromFraction(9000, 100)
        /\ quote.p.discount.Amount = NewMoney(0) => quote.price = quote.p.basePrice

C11_Witness ==
    /\ QuoteValid
    /\ quote.p.basePrice = NewMoney(10000)
    /\ quote.p.discount.Amount = NewMoney(10)
    /\ quote.price = [num |-> 90, den |-> 1]

\* C12: the effective price is absent when the product has no base price,
\* and is the base price when no discount is attached or the attached
\* discount is not valid at now (before its start, or at or after its end).
C12_BasePriceOutsideWindow ==
    quote.done =>
        /\ quote.p.basePrice = NilMoney => quote.price = NilMoney
        /\ (quote.p.basePrice # NilMoney /\ ~QuoteValid) => quote.price = quote.p.basePrice

C12_Witness ==
    /\ quote.done
    /\ quote.p.basePrice = NewMoney(10000)
    /\ quote.p.discount # NilDiscount
    /\ quote.p.discount.Amount = NewMoney(10)
    /\ quote.p.discount.StartDate < quote.p.discount.EndDate
    /\ quote.t = quote.p.discount.EndDate
    /\ quote.price = NewMoney(10000)

C27_TrackerSemantics ==
    /\ tracker.op \in {"", "ReconstructProduct"} =>
          \A f \in TrackerFields : ~ChangeTrackerDirty(tracker.ct, f)
    /\ tracker.op = "MarkDirty" =>
          /\ ChangeTrackerDirty(tracker.ct, tracker.field)
          /\ \A g \in TrackerFields \ {tracker.field} :
                ChangeTrackerDirty(tracker.ct, g) = ChangeTrackerDirty(tracker.prev, g)
    /\ tracker.op = "ReconstructProduct" =>
          /\ \A f \in TrackerFields : ~Dirty(tracker.p.changes, f)
          /\ tracker.p.changes = {}
          /\ tracker.p.events = <<>>

C27_Witness ==
    /\ tracker.op = "MarkDirty"
    /\ tracker.prev = ZeroTracker
    /\ tracker.field = FieldStatus
    /\ ChangeTrackerDirty(tracker.ct, FieldStatus)
    /\ ~ChangeTrackerDirty(tracker.ct, FieldName)

\* =================================================== claims on SpecConvert
\* k is value * 100 when that is whole, else an integer nearest to it
NearestCents(k, value) ==
    IF (value.num * 100) % value.den = 0
    THEN k * value.den = value.num * 100
    ELSE 2 * Abs(k * value.den - value.num * 100) <= value.den

\* C26: the minor units a Money value converts to are exactly value * 100
\* when that is an integer and otherwise the integer nearest to value * 100,
\* for negative values as for positive ones.
C26_MinorUnitsNearest ==
    converted.done =>
        /\ NearestCents(converted.cents, converted.m)
        /\ ~converted.proto.nil
        /\ NearestCents(converted.proto.Amount, converted.m)

\* ===================================================== claims on SpecMoney
\* r is the fraction n / d, in lowest terms with a positive denominator
IsExactly(r, n, d) ==
    /\ r.den > 0
    /\ r.num * d = n * r.den
    /\ GCD(Abs(r.num), r.den) = 1

\* C25: Add is commutative, Multiply by 1/1 is the identity, Add, Subtract
\* and Multiply return the exact rational sum, difference and product, and
\* the operands are afterwards what they were.
C25_MoneyAlgebra ==
    sums.done =>
        /\ sums.add = sums.addRev
        /\ sums.timesOne = sums.a
        /\ IsExactly(sums.add, sums.a.num * sums.b.den + sums.b.num * sums.a.den,
                     sums.a.den * sums.b.den)
        /\ IsExactly(sums.subtract, sums.a.num * sums.b.den - sums.b.num * sums.a.den,
                     sums.a.den * sums.b.den)
        /\ IsExactly(sums.multiply, sums.a.num * sums.b.num, sums.a.den * sums.b.den)
        /\ sums.aAfter = sums.a
        /\ sums.bAfter = sums.b

C25_Witness ==
    /\ sums.done
    /\ sums.a = NewMoneyFromFraction(1, 3)
    /\ sums.b = NewMoney(-150)
    /\ sums.add = NewMoneyFromFraction(-7, 6)
    /\ sums.addRev = NewMoneyFromFraction(-7, 6)
    /\ sums.multiply = NewMoneyFromFraction(-1, 2)

\* ==================================================== claims on SpecMethod
\* the event each method raises and the field it changes
KindOf(op) ==
    CASE op = "Activate" -> "product_activated"
      [] op = "Deactivate" -> "product_deactivated"
      [] op = "Archive" -> "product_archived"
      [] op = "ApplyDiscount" -> "discount_applied"
      [] op = "RemoveDiscount" -> "discount_removed"

FieldOf(op) ==
    CASE op \in {"Activate", "Deactivate"} -> FieldStatus
      [] op = "Archive" -> FieldArchivedAt
      [] op \in {"ApplyDiscount", "RemoveDiscount"} -> FieldDiscount

\* the call changed the field its method is about
ChangedState ==
    CASE called.op \in {"Activate", "Deactivate"} -> called.r.p.status # called.p.status
      [] called.op = "Archive" -> called.r.p.archivedAt # called.p.archivedAt
      [] called.op \in {"ApplyDiscount", "RemoveDiscount"} ->
             called.r.p.discount # called.p.discount

\* C19: a successful Activate, Deactivate, Archive, ApplyDiscount or
\* RemoveDiscount that changes the product appends exactly one event of its
\* kind, for that product, and marks the changed field dirty; one that is an
\* idempotent no-op appends no event and marks no field dirty.
C19_OneEventPerChange ==
    (/\ called.done
     /\ called.op \in {"Activate", "Deactivate", "Archive", "ApplyDiscount", "RemoveDiscount"}
     /\ called.r.err = NoError) =>
        IF ChangedState
        THEN /\ Len(called.r.p.events) = Len(called.p.events) + 1
             /\ SubSeq(called.r.p.events, 1, Len(called.p.events)) = called.p.events
             /\ called.r.p.events[Len(called.r.p.events)].name = KindOf(called.op)
             /\ called.r.p.events[Len(called.r.p.events)].product_id = called.p.id
             /\ called.r.p.changes = called.p.changes \cup {FieldOf(called.op)}
        ELSE /\ called.r.p = called.p
             /\ called.r.p.events = called.p.events
             /\ called.r.p.changes = called.p.changes

C19_Witness ==
    /\ called.done
    /\ called.op = "Archive"
    /\ called.r.err = NoError
    /\ called.p.status = ProductStatusActive
    /\ called.r.p.archivedAt = called.t
    /\ called.r.p.changes = {FieldArchivedAt}
    /\ Len(called.r.p.events) = 1

C31_ExpiredDiscountSuperseded ==
    (/\ called.done
     /\ called.op = "ApplyDiscount"
     /\ called.p.status = ProductStatusActive
     /\ called.p.archivedAt = NilTime
     /\ called.p.discount # NilDiscount
     /\ ~IsValidAt(called.p.discount, called.t)
     /\ IsValidAt(called.d, called.t)) =>
        /\ called.r.err = NoError
        /\ called.r.p.discount = called.d
        /\ Dirty(called.r.p.changes, FieldDiscount)
        /\ called.r.p.events =
               Append(called.p.events, DiscountAppliedEvent(called.p.id, called.d.ID))
        /\ called.r.p = [called.p EXCEPT !.discount = called.d,
                                         !.changes = called.r.p.changes,
                                         !.events = called.r.p.events]

C31_Witness ==
    /\ called.done
    /\ called.op = "ApplyDiscount"
    /\ called.p.status = ProductStatusActive
    /\ called.p.archivedAt = NilTime
    /\ called.p.discount # NilDiscount
    /\ called.p.discount.StartDate < called.p.discount.EndDate
    /\ called.p.discount.EndDate <= called.t
    /\ called.d.ID = "d2"
    /\ called.p.discount.ID = "d1"
    /\ called.r.err = NoError
    /\ called.r.p.discount = called.d
    /\ Len(called.r.p.events) = 1

\* C20: UpdateDetails on a product that is not archived succeeds, leaves the
\* product with the name, description and category passed (so only the
\* fields whose new value differs change), marks exactly the differing fields
\* dirty, appends no event and touches nothing else.
C20_UpdateDetailsDirty ==
    (called.done /\ called.op = "UpdateDetails" /\ called.p.archivedAt = NilTime) =>
        /\ called.r.err = NoError
        /\ called.r.p.name = called.name
        /\ called.r.p.description = called.description
        /\ called.r.p.category = called.category
        /\ \A f \in {FieldName, FieldDescription, FieldCategory, FieldStatus,
                     FieldDiscount, FieldArchivedAt} :
              Dirty(called.r.p.changes, f) <=>
                  \/ Dirty(called.p.changes, f)
                  \/ f = FieldName /\ called.name # called.p.name
                  \/ f = FieldDescription /\ called.description # called.p.description
                  \/ f = FieldCategory /\ called.category # called.p.category
        /\ called.r.p.events = called.p.events
        /\ called.r.p.id = called.p.id
        /\ called.r.p.basePrice = called.p.basePrice
        /\ called.r.p.discount = called.p.discount
        /\ called.r.p.status = called.p.status
        /\ called.r.p.archivedAt = called.p.archivedAt

C20_Witness ==
    /\ called.done
    /\ called.op = "UpdateDetails"
    /\ called.p.archivedAt = NilTime
    /\ called.name # called.p.name
    /\ called.description = called.p.description
    /\ called.category # called.p.category
    /\ called.r.p.changes = {FieldName, FieldCategory}
    /\ called.r.p.events = <<>>

\* the columns that hold a tracked field
ColumnsOf(field) ==
    CASE field = FieldName -> {"name"}
      [] field = FieldDescription -> {"description"}
      [] field = FieldCategory -> {"category"}
      [] field = FieldStatus -> {"status"}
      [] field = FieldArchivedAt -> {"archived_at"}
      [] field = FieldDiscount -> {"discount_id", "discount_amount",
                                   "discount_start_date", "discount_end_date"}

TrackedFields == {FieldName, FieldDescription, FieldCategory, FieldStatus,
                  FieldArchivedAt, FieldDiscount}

\* C21: the update built from a product writes, besides the key and
\* updated_at, exactly the columns of the dirty fields (the four discount
\* columns together when the discount is dirty) and carries no value of any
\* other column: it is never a full-row overwrite.
C21_UpdateWritesDirtyOnly ==
    (called.done /\ called.r.err = NoError) =>
        /\ called.mut.table = "products"
        /\ called.mut.op = "update"
        /\ called.mut.cols = {"product_id", "updated_at"}
              \cup UNION {ColumnsOf(f) : f \in {g \in TrackedFields :
                                                  Dirty(called.r.p.changes, g)}}
        /\ \A f \in TrackedFields :
              ~Dirty(called.r.p.changes, f) => ColumnsOf(f) \cap called.mut.cols = {}
        /\ called.mut.cols # AllColumns
        /\ \A f \in DOMAIN called.mut.vals : FieldColumns(f) \subseteq called.mut.cols

C21_Witness ==
    /\ called.done
    /\ called.op = "ApplyDiscount"
    /\ called.r.err = NoError
    /\ called.r.p.changes = {FieldDiscount}
    /\ called.mut.cols = {"product_id", "discount_id", "discount_amount",
                          "discount_start_date", "discount_end_date", "updated_at"}

\* ================================================== claims on SpecValidate
\* ids that are empty or hold white space only
BlankIDs == {"", " ", "  "}

\* the amount lies in [0, 1]
InUnitInterval(a) == 0 * a.den <= a.num /\ a.num <= 1 * a.den

\* C18: Validate returns InvalidDiscountID when the id is empty or blank;
\* otherwise InvalidDiscountAmount when the amount is absent or outside
\* [0, 1]; otherwise InvalidDiscountDateRange when the start is not strictly
\* before the end; otherwise it succeeds, the amounts 0 and 1 included.
C18_ValidateOrder ==
    validated.done =>
        validated.err =
            IF validated.d.ID \in BlankIDs THEN ErrInvalidDiscountID
            ELSE IF validated.d.Amount = NilMoney \/ ~InUnitInterval(validated.d.Amount)
                 THEN ErrInvalidDiscountAmount
            ELSE IF ~(validated.d.StartDate < validated.d.EndDate)
                 THEN ErrInvalidDiscountDateRange
            ELSE NoError

C18_Witness ==
    /\ validated.done
    /\ validated.d.ID = " d1 "
    /\ validated.d.Amount = NewMoney(100)
    /\ validated.d.StartDate < validated.d.EndDate
    /\ validated.err = NoError

\* =================================================== claims on SpecAttach
\* m <= n on fractions with positive denominators
LessEq(m, n) == m.num * n.den <= n.num * m.den

\* the discount came through the apply-discount path: its event is pending
AttachedByRequest ==
    /\ quote.done
    /\ quote.p.events # <<>>
    /\ quote.p.events[Len(quote.p.events)].name = "discount_applied"

C10_HalfOpenWindow ==
    probe.done =>
        /\ probe.valid = (probe.d.StartDate <= probe.t /\ probe.t < probe.d.EndDate)
        /\ probe.validGo = (probe.d.StartDate <= probe.t /\ probe.t < probe.d.EndDate)

\* C32: IsValidAt is false at the instant equal to StartDate, false at the
\* instant equal to EndDate, and false at every instant when StartDate equals
\* EndDate, for every IsValidAt the package defines.
C32_WindowEndpointsInvalid ==
    (/\ probe.done
     /\ \/ probe.t = probe.d.StartDate
        \/ probe.t = probe.d.EndDate
        \/ probe.d.StartDate = probe.d.EndDate) =>
        /\ ~probe.validGo
        /\ ~probe.valid

\* ===================================================== claims on SpecRace
\* the stored row carries a discount that is valid at instant t
StoredDiscountValid(t) ==
    row.exists /\ row.m.discount # NilDiscount /\ IsValidAt(row.m.discount, t)

\* C36: under concurrent executions on the same stored product, no stored
\* state has status inactive together with an attached discount that is valid
\* at the time of the commits.
C36_NoInactiveWithValidDiscount ==
    ~(StoredDiscountValid(clock) /\ row.m.status = ProductStatusInactive)

====
